---------------------------- MODULE Spec2Model ----------------------------
(* Sugarscape engine and its React driver, src/src/app/sugarscape/page.tsx. *)
(* Cells of an array are stored 1-based: the cell the code calls grid[j]    *)
(* is grid[j+1] here.  Agent indices, cell indices and winners keep the     *)
(* code's 0-based values.                                                   *)
EXTENDS Integers, Sequences, FiniteSets, TLC

VARIABLES width, height, agentCount, maxSugarPerCell, growbackRate, respawn,
          visionSpec, metSpec, initSugarSpec,
          grid, agents, tick, refNull, gridRef, agentsRef, last, resizes

vars == <<width, height, agentCount, maxSugarPerCell, growbackRate, respawn,
          visionSpec, metSpec, initSugarSpec,
          grid, agents, tick, refNull, gridRef, agentsRef, last, resizes>>

params == <<width, height, agentCount, maxSugarPerCell, growbackRate, respawn,
            visionSpec, metSpec, initSugarSpec>>

(* ------------------------------ bounds ------------------------------ *)

\* ticks applied to one world before the model stops stepping it
MaxTick == 3

\* resolution of Math.random(): a draw is k/UDen, k in 0..UDen-1
UDen == 4

\* moves of the Width and # Agents sliders in one behaviour (resizes counts
\* them)
MaxResize == 2

\* saturation of the agent's sugar in the lone-agent scenario
LoneSugarCap == 12

\* resolution of the sugar values given to wealthHistogram: a value is
\* q/SugarDen, so that Math.floor has something to cut
SugarDen == 2

\* most agents in an agent set given to wealthHistogram
MaxHistAgents == 3

\* largest floored sugar in an agent set given to wealthHistogram
MaxHistSugar == 5

\* resolution of gaussian(): a draw is z/ZDen ...
ZDen == 2

\* ... with z in -ZMax..ZMax
ZMax == 8

(* ------------------------------ utils ------------------------------- *)

Min2(a, b) == IF a < b THEN a ELSE b

Max2(a, b) == IF a > b THEN a ELSE b

clamp(v, lo, hi) == Max2(lo, Min2(hi, v))

idx(x, y, w) == y * w + x

\* JavaScript %: the result has the sign of the dividend
jsRem(n, size) == IF n >= 0 THEN n % size ELSE -((-n) % size)

wrap(n, size) == LET r == jsRem(n, size) IN IF r < 0 THEN r + size ELSE r

\* dirs with the two vertical directions mistyped as horizontal ones
dirsHorizontal == << <<1, 0>>, <<-1, 0>>, <<1, 0>>, <<-1, 0>> >>

dirs == << <<1, 0>>, <<-1, 0>>, <<0, 1>>, <<0, -1>> >>

\* Math.random() as the numerators k of k/UDen
rand == 0 .. (UDen - 1)

(* ------------------------- distribution sampler --------------------- *)

Uniform(lo, hi) == [kind |-> "uniform", min |-> lo, max |-> hi]

Normal(mean, sd, lo, hi) ==
    [kind |-> "normal", mean |-> mean, sd |-> sd, min |-> lo, max |-> hi]

\* items: a sequence of records [value, weight]
Discrete(items) == [kind |-> "discrete", items |-> items]

\* gaussian() as the numerators z of z/ZDen
gaussian == (-ZMax) .. ZMax

\* uniform branch scaled by max-min, so that max is never drawn
sampleUniformNoPlusOne(spec, k) ==
    LET v == spec.min + ((k * (spec.max - spec.min)) \div UDen)
    IN  clamp(v, Min2(spec.min, spec.max), Max2(spec.min, spec.max))

\* uniform branch: floor(min + U*(max-min+1)) clamped to the ordered bounds
sampleUniform(spec, k) ==
    LET v == spec.min + ((k * (spec.max - spec.min + 1)) \div UDen)
    IN  clamp(v, Min2(spec.min, spec.max), Max2(spec.min, spec.max))

\* Math.round(num/den), den > 0: halves are rounded up
mathRound(num, den) == (2 * num + den) \div (2 * den)

\* normal branch: round(mean + z*sd) clamped to the ordered bounds
sampleNormal(spec, z) ==
    clamp(mathRound(spec.mean * ZDen + z * spec.sd, ZDen),
          Min2(spec.min, spec.max), Max2(spec.min, spec.max))

\* filter that also keeps the items of weight 0
nonNegativeWeight(it) == it.weight >= 0

\* the filter of the discrete branch
positiveWeight(it) == it.weight > 0

RECURSIVE weightSum(_, _)
\* the sum of the weights of the first j items
weightSum(items, j) == IF j = 0 THEN 0 ELSE items[j].weight + weightSum(items, j - 1)

RECURSIVE discreteFrom(_, _, _)
\* the loop of the discrete branch from item j on; r is in units of 1/UDen
discreteFrom(items, j, r) ==
    IF j > Len(items) THEN items[Len(items)].value
    ELSE IF r - items[j].weight * UDen <= 0 THEN items[j].value
    ELSE discreteFrom(items, j + 1, r - items[j].weight * UDen)

\* discrete branch: 0 without an item of positive weight, else the item at
\* which the running weight reaches U*total
sampleDiscrete(spec, k) ==
    LET items == SelectSeq(spec.items, positiveWeight)
    IN  IF Len(items) = 0 THEN 0
        ELSE discreteFrom(items, 1, k * weightSum(items, Len(items)))

\* the results sampleInt can return for a spec
sampleInt(spec) ==
    CASE spec.kind = "uniform"  -> { sampleUniform(spec, k) : k \in rand }
      [] spec.kind = "normal"   -> { sampleNormal(spec, z) : z \in gaussian }
      [] spec.kind = "discrete" -> { sampleDiscrete(spec, k) : k \in rand }

(* --------------------------- world builders ------------------------- *)

\* 10^6 * exp(-d2 / (2*sigma^2)), sigma = 0.12*s, rounded to an integer
ExpMicro(s, d2) ==
    CASE s = 2  -> (IF d2 = 0 THEN 1000000 ELSE IF d2 = 1 THEN 170 ELSE 0)
      [] s = 3  -> (IF d2 = 0 THEN 1000000 ELSE IF d2 = 1 THEN 21110
                    ELSE IF d2 = 2 THEN 446 ELSE IF d2 = 3 THEN 9 ELSE 0)
      [] s = 10 -> (IF d2 > 41 THEN 0 ELSE
                    << 1000000, 706648, 499352, 352866, 249352, 176204,
                       124514, 87988, 62177, 43937, 31048, 21940, 15504,
                       10956, 7742, 5471, 3866, 2732, 1930, 1364, 964, 681,
                       481, 340, 240, 170, 120, 85, 60, 42, 30, 21, 15, 11,
                       7, 5, 4, 3, 2, 1, 1, 1 >>[d2 + 1])

\* amp * exp(-d2/(2 sigma^2)) in millionths
gaussian2D(x, y, cx, cy, amp, s) ==
    LET dx == x - cx
        dy == y - cy
    IN  amp * ExpMicro(s, dx * dx + dy * dy)

\* a cell whose ceiling is one above its first sugar
newCellOpenCeiling(sugar) == [sugar |-> sugar, maxSugar |-> sugar + 1]

\* the cell buildLandscape stores: { sugar, maxSugar: sugar }
newCell(sugar) == [sugar |-> sugar, maxSugar |-> sugar]

\* a landscape of w*w cells, the height forgotten
buildLandscapeSquare(w, h, m) ==
    [j1 \in 1 .. (w * w) |-> [sugar |-> 0, maxSugar |-> 0]]

buildLandscape(w, h, m) ==
    LET cx1 == w \div 4
        cy1 == (h * 3) \div 10
        cx2 == (w * 3) \div 4
        cy2 == (h * 7) \div 10
        s   == Min2(w, h)
        cell(j) ==
            LET x == j % w
                y == j \div w
                g == gaussian2D(x, y, cx1, cy1, m, s)
                     + gaussian2D(x, y, cx2, cy2, m, s)
                sugar == clamp((g + 500000) \div 1000000, 0, m)
            IN  newCell(sugar)
    IN  [j1 \in 1 .. (w * h) |-> cell(j1 - 1)]

\* makeAgents with the ids counted from 1
makeAgentsIdsFromOne(count, w, h, vSpec, mSpec, sSpec) ==
    LET draws == [x : 0 .. (w - 1), y : 0 .. (h - 1), sugar : sampleInt(sSpec),
                  vision : sampleInt(vSpec), metabolism : sampleInt(mSpec)]
    IN  { [i \in 1 .. count |->
             [id |-> i, x |-> c[i].x, y |-> c[i].y, sugar |-> c[i].sugar,
              vision |-> c[i].vision, metabolism |-> c[i].metabolism]] :
          c \in [1 .. count -> draws] }

\* every agent array makeAgents(count, ...) can return
makeAgents(count, w, h, vSpec, mSpec, sSpec) ==
    LET draws == [x : 0 .. (w - 1), y : 0 .. (h - 1), sugar : sampleInt(sSpec),
                  vision : sampleInt(vSpec), metabolism : sampleInt(mSpec)]
    IN  { [i \in 1 .. count |->
             [id |-> i - 1, x |-> c[i].x, y |-> c[i].y, sugar |-> c[i].sugar,
              vision |-> c[i].vision, metabolism |-> c[i].metabolism]] :
          c \in [1 .. count -> draws] }

(* ------------------ step mechanics (two-phase, torus) --------------- *)

\* occPrev never written: no cell counts as occupied
occPrevOfEmpty(agentsPrev, w, h) == {}

\* occPrev: a Uint8Array(width*height); a write outside it is dropped
occPrevOf(agentsPrev, w, h) ==
    { j \in 0 .. (w * h - 1) :
        \E i \in 1 .. Len(agentsPrev) :
            idx(agentsPrev[i].x, agentsPrev[i].y, w) = j }

\* gridPrev[j] is undefined, so gridPrev[j].sugar throws a TypeError
undefinedCell(gridPrev, j) == j < 0 \/ j >= Len(gridPrev)

\* scanCell with the tie on distance turned around (d <= best.dist): among
\* equal sugar and equal distance the last direction scanned would win
scanCellLaterTie(best, a, k, d, occPrev, gridPrev, w, h) ==
    LET nx == wrap(a.x + dirs[k][1] * d, w)
        ny == wrap(a.y + dirs[k][2] * d, h)
        j  == idx(nx, ny, w)
    IN  IF j \in occPrev THEN best
        ELSE LET s == gridPrev[j + 1].sugar
             IN  IF s > best.sugar \/ (s = best.sugar /\ d <= best.dist)
                 THEN [x |-> nx, y |-> ny, sugar |-> s, dist |-> d]
                 ELSE best

\* one iteration of the inner loop of chooseIntents
scanCell(best, a, k, d, occPrev, gridPrev, w, h) ==
    LET nx == wrap(a.x + dirs[k][1] * d, w)
        ny == wrap(a.y + dirs[k][2] * d, h)
        j  == idx(nx, ny, w)
    IN  IF j \in occPrev THEN best
        ELSE LET s == gridPrev[j + 1].sugar
             IN  IF s > best.sugar \/ (s = best.sugar /\ d < best.dist)
                 THEN [x |-> nx, y |-> ny, sugar |-> s, dist |-> d]
                 ELSE best

RECURSIVE scanFrom(_, _, _, _, _, _, _, _)
\* the loops over dirs and d = 1..vision, from direction k and distance d on
scanFrom(best, a, k, d, occPrev, gridPrev, w, h) ==
    IF k > 4 THEN best
    ELSE IF d > a.vision THEN scanFrom(best, a, k + 1, 1, occPrev, gridPrev, w, h)
    ELSE CHOOSE res \in { scanFrom(b, a, k, d + 1, occPrev, gridPrev, w, h) :
                            b \in {scanCell(best, a, k, d, occPrev, gridPrev, w, h)} } :
            TRUE

\* the TypeError of chooseIntents: an agent's own cell, or a scanned cell
\* that is not skipped as occupied, lies outside gridPrev
chooseIntentsThrows(agentsPrev, gridPrev, w, h) ==
    LET occPrev == occPrevOf(agentsPrev, w, h)
    IN  \E i \in 1 .. Len(agentsPrev) :
          LET a == agentsPrev[i]
          IN  \/ undefinedCell(gridPrev, idx(a.x, a.y, w))
              \/ \E k \in 1 .. 4, d \in 1 .. a.vision :
                   LET j == idx(wrap(a.x + dirs[k][1] * d, w),
                                wrap(a.y + dirs[k][2] * d, h), w)
                   IN  j \notin occPrev /\ undefinedCell(gridPrev, j)

chooseIntents(agentsPrev, gridPrev, w, h) ==
    LET occPrev == occPrevOf(agentsPrev, w, h)
    IN  [i \in 1 .. Len(agentsPrev) |->
          LET a == agentsPrev[i]
              best0 == [x |-> a.x, y |-> a.y,
                        sugar |-> gridPrev[idx(a.x, a.y, w) + 1].sugar,
                        dist |-> 0]
              best == scanFrom(best0, a, 1, 1, occPrev, gridPrev, w, h)
          IN  [to |-> idx(best.x, best.y, w), from |-> idx(a.x, a.y, w)]]

\* winners: an Int32Array(width*height); reading outside it gives undefined,
\* which is neither -1 nor an agent index, and a write outside it is dropped
RECURSIVE resolveFrom(_, _, _, _)
resolveFrom(winners, intents, i, flips) ==
    IF i > Len(intents) THEN winners
    ELSE LET t == intents[i].to
         IN  IF t \notin DOMAIN winners
             THEN resolveFrom(winners, intents, i + 1, flips)
             ELSE IF winners[t] = -1
             THEN resolveFrom([winners EXCEPT ![t] = i - 1], intents, i + 1, flips)
             ELSE IF flips[i]
             THEN resolveFrom([winners EXCEPT ![t] = i - 1], intents, i + 1, flips)
             ELSE resolveFrom(winners, intents, i + 1, flips)

\* the agents for which resolveConflicts draws Math.random(): their target was
\* claimed by an earlier agent, or lies outside winners
contested(intents, w, h) ==
    { i \in 1 .. Len(intents) :
        \/ intents[i].to >= w * h
        \/ \E i0 \in 1 .. (i - 1) : intents[i0].to = intents[i].to }

\* flips[i]: the outcome of Math.random() < 0.5 drawn for agent i
resolveConflicts(intents, w, h, flips) ==
    resolveFrom([t \in 0 .. (w * h - 1) |-> -1], intents, 1, flips)

\* applyMoves without the winner test: every claimant of a cell moves
applyMovesAllMove(agentsPrev, intents, winners, w) ==
    [i \in 1 .. Len(agentsPrev) |->
       LET a == agentsPrev[i]
           t == intents[i].to
       IN  IF t \in DOMAIN winners THEN [a EXCEPT !.x = t % w, !.y = t \div w] ELSE a]

\* a move that puts a fresh agent on the cell: the sugar is not copied
moveToFresh(a, t, w) == [a EXCEPT !.x = t % w, !.y = t \div w, !.sugar = 0]

\* the copy {...a} of agent a, moved to cell t
moveTo(a, t, w) == [a EXCEPT !.x = t % w, !.y = t \div w]

\* the winner test as 'cell t has a winner'
isWinnerAny(winners, t, i) == t \in DOMAIN winners /\ winners[t] # -1

\* win = winners[t] === i, for agent i (1-based here)
isWinner(winners, t, i) == t \in DOMAIN winners /\ winners[t] = i - 1

applyMoves(agentsPrev, intents, winners, w) ==
    [i \in 1 .. Len(agentsPrev) |->
       LET a == agentsPrev[i]
           t == intents[i].to
       IN  IF isWinner(winners, t, i) THEN moveTo(a, t, w) ELSE a]


\* harvest that leaves the sugar on the cell
harvestCellKeep(gridNext, j) == gridNext

\* harvest of one agent: the cell's sugar goes to the agent, the cell to 0
harvestCell(gridNext, j) == [gridNext EXCEPT ![j + 1].sugar = 0]

\* harvest written with = instead of +=: the agent's own sugar is lost
gainReplace(a, c) == [a EXCEPT !.sugar = c.sugar]

\* a.sugar += gridNext[j].sugar
gain(a, c) == [a EXCEPT !.sugar = a.sugar + c.sugar]

RECURSIVE harvestFrom(_, _, _, _)
\* the harvest loop from agent i on; r.agents and r.grid are mutated in place
harvestFrom(r, i, n, w) ==
    IF i > n THEN r
    ELSE LET a == r.agents[i]
             j == idx(a.x, a.y, w)
         IN  harvestFrom([agents |-> [r.agents EXCEPT ![i] = gain(a, r.grid[j + 1])],
                          grid |-> harvestCell(r.grid, j)],
                         i + 1, n, w)

\* metabolism that charges every agent at least 1
metabolizeAtLeastOne(ags) ==
    [i \in 1 .. Len(ags) |->
       [ags[i] EXCEPT !.sugar = ags[i].sugar - Max2(1, ags[i].metabolism)]]

metabolize(ags) ==
    [i \in 1 .. Len(ags) |-> [ags[i] EXCEPT !.sugar = ags[i].sugar - ags[i].metabolism]]

\* death filter that also removes the agents at exactly 0
survivesStrict(a) == a.sugar > 0

\* the death filter's predicate
survives(a) == a.sugar >= 0

\* growback that only grows the cells that still hold sugar
growCellNeedsSeed(c, rate) ==
    IF c.sugar = 0 THEN c ELSE [c EXCEPT !.sugar = Min2(c.maxSugar, c.sugar + rate)]

\* growback without the ceiling
growCellNoCap(c, rate) == [c EXCEPT !.sugar = c.sugar + rate]

\* growback of one cell
growCell(c, rate) == [c EXCEPT !.sugar = Min2(c.maxSugar, c.sugar + rate)]

\* growback whose loop starts at j = 1: cell 0 is left out
growbackSkipFirst(gridNext, rate) ==
    [j1 \in 1 .. Len(gridNext) |->
       IF j1 = 1 THEN gridNext[j1] ELSE growCell(gridNext[j1], rate)]

\* the growback loop over all cells
growback(gridNext, rate) ==
    [j1 \in 1 .. Len(gridNext) |-> growCell(gridNext[j1], rate)]

\* gridNext = gridPrev.slice() copies the array but not the Cell objects:
\* gridNext[j] and gridPrev[j] are the same object, so the value returned as
\* gridNext is also what gridPrev holds after the call
harvestMetabolizeDieGrow(agentsNext, gridPrev, rate, w) ==
    LET hv == CHOOSE v \in {harvestFrom([agents |-> agentsNext, grid |-> gridPrev],
                                        1, Len(agentsNext), w)} : TRUE
        mt == metabolize(hv.agents)
    IN  [harvested |-> hv.agents,
         gridHarvested |-> hv.grid,
         metabolized |-> mt,
         alive |-> SelectSeq(mt, survives),
         gridNext |-> growback(hv.grid, rate)]

(* -------------------------- wealth histogram ------------------------ *)

\* Math.floor(q/den), den > 0
mathFloor(q, den) == q \div den

\* Math.ceil(a/b), b > 0
mathCeil(a, b) == -((-a) \div b)

RECURSIVE ceilLog2(_)
\* Math.ceil(Math.log2(m)), m >= 1
ceilLog2(m) == IF m <= 1 THEN 0 ELSE 1 + ceilLog2((m + 1) \div 2)

\* Sturges' rule left uncut
binsAskedAutoUncut(n, auto, binCount) ==
    IF auto THEN ceilLog2(Max2(2, n)) + 1 ELSE clamp(binCount, 1, 50)

\* the number of bins asked for: Sturges' rule cut to 5..30, or binCount cut
\* to 1..50
binsAsked(n, auto, binCount) ==
    IF auto THEN clamp(ceilLog2(Max2(2, n)) + 1, 5, 30) ELSE clamp(binCount, 1, 50)

\* the single bin of a set whose floored sugars are all equal, counted one
\* short
singleBinOneShort(minS, maxS, n) == <<[lo |-> minS, hi |-> maxS, count |-> n - 1]>>

\* the single bin of a set whose floored sugars are all equal
singleBin(minS, maxS, n) == <<[lo |-> minS, hi |-> maxS, count |-> n]>>

\* the number of bins rounded down instead of up
numBinsRoundDown(range, binSize) == range \div binSize

\* nb = Math.ceil(range/binSize)
numBins(range, binSize) == mathCeil(range, binSize)

\* the bin index taken from the value itself, not from its offset to minS
binIndexNoOffset(v, minS, binSize, nb) == clamp(mathFloor(v, binSize), 0, nb - 1)

\* bi = clamp(Math.floor((v-minS)/binSize), 0, nb-1)
binIndex(v, minS, binSize, nb) == clamp(mathFloor(v - minS, binSize), 0, nb - 1)

\* wealthHistogram(agents, auto, binCount); the agents are given by their
\* sugar, sugars[i] being the numerator of agents[i].sugar over SugarDen.  A
\* bin {bin: `${lo}-${hi}`, count} is the record [lo, hi, count].
wealthHistogram(sugars, auto, binCount) ==
    LET n == Len(sugars)
        v == [i \in 1 .. n |-> mathFloor(sugars[i], SugarDen)]
    IN  IF n = 0 THEN <<[lo |-> 0, hi |-> 0, count |-> 0]>>
        ELSE LET minS == CHOOSE m \in {v[i] : i \in 1 .. n} : \A i \in 1 .. n : m <= v[i]
                 maxS == CHOOSE m \in {v[i] : i \in 1 .. n} : \A i \in 1 .. n : m >= v[i]
             IN  IF minS = maxS THEN singleBin(minS, maxS, n)
                 ELSE LET k == binsAsked(n, auto, binCount)
                          range == maxS - minS + 1
                          binSize == Max2(1, mathCeil(range, k))
                          nb == numBins(range, binSize)
                      IN  [b \in 1 .. nb |->
                             [lo |-> minS + (b - 1) * binSize,
                              hi |-> minS + (b - 1) * binSize + binSize - 1,
                              count |-> Cardinality({ i \in 1 .. n :
                                           binIndex(v[i], minS, binSize, nb) = b - 1 })]]

(* ------------------------------ driver ------------------------------ *)

\* the phase values of the latest doStep call, kept for the properties
NoStep(op) ==
    [op |-> op, w |-> 0, h |-> 0, agentsPrev |-> <<>>, gridPrev |-> <<>>,
     intents |-> <<>>, winners |-> <<>>, moved |-> <<>>, harvested |-> <<>>,
     gridHarvested |-> <<>>, metabolized |-> <<>>, alive |-> <<>>]

\* the widths the model moves the Width slider between (the slider's range
\* 20..120 scaled down to small worlds)
Widths == {2, 3}

\* state after mount: initializeWorld has run, the refs are not yet written
InitWorld(w, h, n, m) ==
    /\ width = w /\ height = h /\ agentCount = n /\ maxSugarPerCell = m
    /\ grid = buildLandscape(w, h, m)
    /\ agents \in makeAgents(n, w, h, visionSpec, metSpec, initSugarSpec)
    /\ tick = 0
    /\ refNull = TRUE /\ gridRef = <<>> /\ agentsRef = <<>>
    /\ last = NoStep("init")
    /\ resizes = 0

Init ==
    /\ visionSpec \in {Uniform(1, 1), Uniform(3, 3)}
    /\ metSpec \in {Uniform(0, 0), Uniform(1, 1)}
    /\ initSugarSpec = Uniform(0, 1)
    /\ growbackRate \in {0, 1}
    /\ respawn \in BOOLEAN
    /\ \E w \in Widths : InitWorld(w, 2, 2, 2)

\* the effects of line 421 after a commit: the refs take the rendered state
Commit ==
    /\ refNull \/ gridRef # grid \/ agentsRef # agents
    /\ refNull' = FALSE
    /\ gridRef' = grid
    /\ agentsRef' = agents
    /\ last' = NoStep("commit")
    /\ UNCHANGED <<params, grid, agents, tick, resizes>>

\* doStep returns at once: a ref is still null
doStepNull ==
    /\ refNull
    /\ last' = NoStep("doStepNull")
    /\ UNCHANGED <<params, grid, agents, tick, refNull, gridRef, agentsRef, resizes>>

\* doStep ends in the TypeError of chooseIntents: no setter is reached
doStepThrows ==
    /\ ~refNull
    /\ chooseIntentsThrows(agentsRef, gridRef, width, height)
    /\ last' = [NoStep("doStepThrows") EXCEPT !.w = width, !.h = height,
                  !.agentsPrev = agentsRef, !.gridPrev = gridRef]
    /\ UNCHANGED <<params, grid, agents, tick, refNull, gridRef, agentsRef, resizes>>

\* respawn that ignores the survivors: agentCount newborns every time
birthsAll(count, alive) == count

\* the number of newborns of a respawn
births(count, alive) == count - Len(alive)

\* a whole tick, for one outcome of the coin flips and of the respawn draws
doStepRuns ==
    /\ ~refNull
    /\ ~chooseIntentsThrows(agentsRef, gridRef, width, height)
    /\ \E intents \in {chooseIntents(agentsRef, gridRef, width, height)} :
       \E flips \in [contested(intents, width, height) -> BOOLEAN] :
       \E winners \in {resolveConflicts(intents, width, height, flips)} :
       \E agentsNext \in {applyMoves(agentsRef, intents, winners, width)} :
       \E r \in {harvestMetabolizeDieGrow(agentsNext, gridRef, growbackRate, width)} :
         /\ IF respawn /\ Len(r.alive) < agentCount
            THEN \E newborns \in makeAgents(births(agentCount, r.alive), width, height,
                                            visionSpec, metSpec, initSugarSpec) :
                    agents' = r.alive \o newborns
            ELSE agents' = r.alive
         /\ grid' = r.gridNext
         /\ gridRef' = r.gridNext
         /\ tick' = tick + 1
         /\ last' = [op |-> "doStep", w |-> width, h |-> height,
                     agentsPrev |-> agentsRef, gridPrev |-> gridRef,
                     intents |-> intents,
                     winners |-> [t1 \in 1 .. (width * height) |-> winners[t1 - 1]],
                     moved |-> agentsNext, harvested |-> r.harvested,
                     gridHarvested |-> r.gridHarvested,
                     metabolized |-> r.metabolized, alive |-> r.alive]
    /\ UNCHANGED <<params, refNull, agentsRef, resizes>>

\* doStep, called by the interval timer or by the Step button
doStep ==
    /\ tick < MaxTick
    /\ (doStepNull \/ doStepThrows \/ doStepRuns)

\* the Width slider: setWidth(w), the commit of that render (its effects of
\* line 421 copy the rendered grid and agents into the refs, doStep is
\* re-created with the new width) and the effect of line 230, which calls
\* initializeWorld; the world it sets is rendered by a later commit
setWidth ==
    \E w \in Widths :
      /\ w # width
      /\ resizes < MaxResize
      /\ resizes' = resizes + 1
      /\ width' = w
      /\ refNull' = FALSE
      /\ gridRef' = grid
      /\ agentsRef' = agents
      /\ grid' = buildLandscape(w, height, maxSugarPerCell)
      /\ agents' \in makeAgents(agentCount, w, height, visionSpec, metSpec, initSugarSpec)
      /\ tick' = 0
      /\ last' = NoStep("setWidth")
      /\ UNCHANGED <<height, agentCount, maxSugarPerCell, growbackRate, respawn,
                     visionSpec, metSpec, initSugarSpec>>

Next == doStep \/ Commit

Spec == Init /\ [][Next]_vars

\* the driver with the Width slider, on worlds of one agent
InitDriver ==
    /\ visionSpec \in {Uniform(1, 1), Uniform(3, 3)}
    /\ metSpec = Uniform(0, 1)
    /\ initSugarSpec = Uniform(1, 1)
    /\ growbackRate \in {0, 1}
    /\ respawn \in BOOLEAN
    /\ \E w \in Widths : InitWorld(w, 2, 1, 2)

NextDriver == doStep \/ Commit \/ setWidth

SpecDriver == InitDriver /\ [][NextDriver]_vars

\* the population targets the model moves the # Agents slider between (the
\* slider's range 20..2000 scaled down)
AgentCounts == {1, 2}

\* the # Agents slider with auto-apply off: setAgentCount(n) and the commit of
\* that render, whose effects of line 421 copy the rendered grid and agents
\* into the refs; agentCount is not a dependency of the effect of line 230,
\* so no world is built
setAgentCount ==
    \E n \in AgentCounts :
      /\ n # agentCount
      /\ resizes < MaxResize
      /\ resizes' = resizes + 1
      /\ agentCount' = n
      /\ refNull' = FALSE
      /\ gridRef' = grid
      /\ agentsRef' = agents
      /\ last' = NoStep("setAgentCount")
      /\ UNCHANGED <<width, height, maxSugarPerCell, growbackRate, respawn,
                     visionSpec, metSpec, initSugarSpec, grid, agents, tick>>

NextControls == doStep \/ Commit \/ setWidth \/ setAgentCount

\* the driver with the Width and # Agents sliders, on worlds that start with
\* one agent
InitControls ==
    /\ visionSpec = Uniform(1, 1)
    /\ metSpec = Uniform(1, 1)
    /\ initSugarSpec = Uniform(1, 1)
    /\ growbackRate = 1
    /\ respawn \in BOOLEAN
    /\ \E w \in Widths : InitWorld(w, 2, 1, 2)

SpecControls == InitControls /\ [][NextControls]_vars

\* The lone-agent scenario: 10x10, maxSugarPerCell 4, growbackRate 1, one
\* agent with vision 10, metabolism 0, initial sugar 5, respawn off; the
\* first world is committed to the refs
InitLone ==
    /\ visionSpec = Uniform(10, 10)
    /\ metSpec = Uniform(0, 0)
    /\ initSugarSpec = Uniform(5, 5)
    /\ growbackRate = 1
    /\ respawn = FALSE
    /\ width = 10 /\ height = 10 /\ agentCount = 1 /\ maxSugarPerCell = 4
    /\ grid = buildLandscape(10, 10, 4)
    /\ agents \in makeAgents(1, 10, 10, visionSpec, metSpec, initSugarSpec)
    /\ tick = 0
    /\ refNull = FALSE /\ gridRef = grid /\ agentsRef = agents
    /\ last = NoStep("init")
    /\ resizes = 0

\* the agents with their sugar cut at LoneSugarCap
capSugar(ags) ==
    [i \in 1 .. Len(ags) |-> [ags[i] EXCEPT !.sugar = Min2(ags[i].sugar, LoneSugarCap)]]

\* doStep followed by the commit of its result, ticks running for ever: to
\* keep the states finite the tick counter stops at MaxTick and the sugar an
\* agent holds at LoneSugarCap (with metabolism 0 neither decides a move or
\* a death)
loneTick ==
    /\ ~refNull
    /\ ~chooseIntentsThrows(agentsRef, gridRef, width, height)
    /\ \E intents \in {chooseIntents(agentsRef, gridRef, width, height)} :
       \E flips \in [contested(intents, width, height) -> BOOLEAN] :
       \E winners \in {resolveConflicts(intents, width, height, flips)} :
       \E agentsNext \in {applyMoves(agentsRef, intents, winners, width)} :
       \E r \in {harvestMetabolizeDieGrow(agentsNext, gridRef, growbackRate, width)} :
         /\ agents' = capSugar(r.alive)
         /\ agentsRef' = capSugar(r.alive)
         /\ grid' = r.gridNext
         /\ gridRef' = r.gridNext
         /\ tick' = Min2(tick + 1, MaxTick)
         /\ last' = [op |-> "doStep", w |-> width, h |-> height,
                     agentsPrev |-> agentsRef, gridPrev |-> gridRef,
                     intents |-> intents,
                     winners |-> [t1 \in 1 .. (width * height) |-> winners[t1 - 1]],
                     moved |-> agentsNext, harvested |-> r.harvested,
                     gridHarvested |-> r.gridHarvested,
                     metabolized |-> r.metabolized, alive |-> r.alive]
    /\ UNCHANGED <<params, refNull, resizes>>

\* the timer keeps firing: every tick that can run does run
SpecLone == InitLone /\ [][loneTick]_vars /\ WF_vars(loneTick)

\* Worlds of one agent, maxSugarPerCell 3, growbackRate 1 or 2, respawn off,
\* the first world committed to the refs; with metabolism 5 the agent dies in
\* its first tick and the grid is left to grow back.  last.freeTicks[j]
\* counts the latest consecutive ticks after whose move phase no agent stood
\* on cell j-1
InitGrow ==
    /\ visionSpec = Uniform(1, 1)
    /\ metSpec \in {Uniform(1, 1), Uniform(5, 5)}
    /\ initSugarSpec = Uniform(1, 1)
    /\ growbackRate \in {1, 2}
    /\ respawn = FALSE
    /\ \E w \in Widths :
          /\ width = w /\ height = 2 /\ agentCount = 1 /\ maxSugarPerCell = 3
          /\ grid = buildLandscape(w, 2, 3)
          /\ agents \in makeAgents(1, w, 2, visionSpec, metSpec, initSugarSpec)
    /\ tick = 0
    /\ refNull = FALSE /\ gridRef = grid /\ agentsRef = agents
    /\ last = [op |-> "init", freeTicks |-> [j1 \in 1 .. (width * height) |-> 0]]
    /\ resizes = 0

\* doStep followed by the commit of its result, ticks running for ever; the
\* tick counter stops at MaxTick, the sugar an agent holds at LoneSugarCap
\* and the count of free ticks at maxSugarPerCell + 1
growTick ==
    /\ ~refNull
    /\ ~chooseIntentsThrows(agentsRef, gridRef, width, height)
    /\ \E intents \in {chooseIntents(agentsRef, gridRef, width, height)} :
       \E flips \in [contested(intents, width, height) -> BOOLEAN] :
       \E winners \in {resolveConflicts(intents, width, height, flips)} :
       \E agentsNext \in {applyMoves(agentsRef, intents, winners, width)} :
       \E r \in {harvestMetabolizeDieGrow(agentsNext, gridRef, growbackRate, width)} :
         /\ agents' = capSugar(r.alive)
         /\ agentsRef' = capSugar(r.alive)
         /\ grid' = r.gridNext
         /\ gridRef' = r.gridNext
         /\ tick' = Min2(tick + 1, MaxTick)
         /\ last' = [op |-> "doStep", gridPrev |-> gridRef, moved |-> agentsNext,
                     freeTicks |->
                       [j1 \in 1 .. Len(gridRef) |->
                          IF \E i \in 1 .. Len(agentsNext) :
                                idx(agentsNext[i].x, agentsNext[i].y, width) = j1 - 1
                          THEN 0
                          ELSE Min2(last.freeTicks[j1] + 1, maxSugarPerCell + 1)]]
    /\ UNCHANGED <<params, refNull, resizes>>

SpecGrow == InitGrow /\ [][growTick]_vars

\* The histogram as a function of its arguments: an agent set of up to
\* MaxHistAgents agents with sugar between -1 and MaxHistSugar + 1 (in steps
\* of 1/SugarDen), either value of auto and a bin count below, inside and
\* above 1..50; no world is built
BinCounts == {0, 2, 60}

HistSugars == (-SugarDen) .. (MaxHistSugar * SugarDen + SugarDen - 1)

\* agent sets on either side of the step of Sturges' rule from 5 to 6 bins
\* (16 and 17 agents), with floored sugars 0..5
LargeSets ==
    { [i \in 1 .. n |-> ((i + o) % 6) * SugarDen + (i % SugarDen)] :
        n \in {16, 17}, o \in 0 .. 2 }

InitHist ==
    /\ width = 0 /\ height = 0 /\ agentCount = 0 /\ maxSugarPerCell = 0
    /\ growbackRate = 0 /\ respawn = FALSE
    /\ visionSpec = Uniform(1, 1) /\ metSpec = Uniform(0, 0)
    /\ initSugarSpec = Uniform(0, 0)
    /\ grid = <<>> /\ agents = <<>> /\ tick = 0
    /\ refNull = TRUE /\ gridRef = <<>> /\ agentsRef = <<>>
    /\ resizes = 0
    /\ \E n \in 0 .. MaxHistAgents :
       \E sugars \in [1 .. n -> HistSugars] \cup LargeSets,
          auto \in BOOLEAN, binCount \in BinCounts :
          last = [op |-> "histogramArgs", sugars |-> sugars, auto |-> auto,
                  binCount |-> binCount, bins |-> <<>>]

\* one call of wealthHistogram on the arguments drawn
histogramCall ==
    /\ last.op = "histogramArgs"
    /\ last' = [last EXCEPT !.op = "wealthHistogram",
                             !.bins = wealthHistogram(last.sugars, last.auto,
                                                      last.binCount)]
    /\ UNCHANGED <<params, grid, agents, tick, refNull, gridRef, agentsRef, resizes>>

SpecHist == InitHist /\ [][histogramCall]_vars

\* The sampler as a function of its argument.  The bounds and values of the
\* specs drawn span at most UDen integers, so that every integer of a range
\* is hit by some draw k/UDen
SpecBounds == (-1) .. (UDen - 2)

DiscreteItems == [value : 0 .. 2, weight : (-1) .. 2]

SamplerSpecs ==
    { Uniform(lo, hi) : lo \in SpecBounds, hi \in SpecBounds }
    \cup { Normal(mean, sd, lo, hi) :
             mean \in 0 .. 1, sd \in 0 .. 2, lo \in SpecBounds, hi \in SpecBounds }
    \cup { Discrete(items) :
             items \in UNION { [1 .. n -> DiscreteItems] : n \in 0 .. 2 } }

InitSample ==
    /\ width = 0 /\ height = 0 /\ agentCount = 0 /\ maxSugarPerCell = 0
    /\ growbackRate = 0 /\ respawn = FALSE
    /\ visionSpec = Uniform(1, 1) /\ metSpec = Uniform(0, 0)
    /\ initSugarSpec = Uniform(0, 0)
    /\ grid = <<>> /\ agents = <<>> /\ tick = 0
    /\ refNull = TRUE /\ gridRef = <<>> /\ agentsRef = <<>>
    /\ resizes = 0
    /\ \E spec \in SamplerSpecs : last = [op |-> "samplerArgs", spec |-> spec, result |-> 0]

\* one call of sampleInt on the spec drawn, for one outcome of its draw
sampleIntCall ==
    /\ last.op = "samplerArgs"
    /\ \E v \in sampleInt(last.spec) :
          last' = [last EXCEPT !.op = "sampleInt", !.result = v]
    /\ UNCHANGED <<params, grid, agents, tick, refNull, gridRef, agentsRef, resizes>>

SpecSample == InitSample /\ [][sampleIntCall]_vars

\* Worlds of one agent whose vision and metabolism specs are, besides the
\* usual ones, specs the distribution editors can produce: a uniform spec
\* whose min went to 0 with the Max field, a discrete spec whose weights are
\* all 0, a normal spec whose Min field was set below 0
VisionSpecs ==
    {Uniform(1, 2), Uniform(0, 1), Discrete(<<[value |-> 1, weight |-> 0]>>)}

MetabolismSpecs == {Uniform(0, 1), Normal(0, 1, -1, 1)}

InitAttr ==
    /\ visionSpec \in VisionSpecs
    /\ metSpec \in MetabolismSpecs
    /\ initSugarSpec = Uniform(1, 1)
    /\ growbackRate = 1
    /\ respawn \in BOOLEAN
    /\ \E w \in Widths : InitWorld(w, 2, 1, 2)

SpecAttr == InitAttr /\ [][Next]_vars

(* ----------------------------- properties --------------------------- *)

\* the latest doStep call ran a whole tick
stepped == last.op = "doStep"

\* agents i and k of an agent array stand on the same cell
sameCell(ags, i, k) == ags[i].x = ags[k].x /\ ags[i].y = ags[k].y

\* C1: after applyMoves has run in a tick, no two agents of the resulting
\* agent set have the same (x,y)
C1_Occupancy ==
    stepped => \A i, k \in 1 .. Len(last.moved) :
                  i # k => ~sameCell(last.moved, i, k)

\* C2: every cell of the grid (the state and the array the ref holds)
\* satisfies 0 <= sugar <= maxSugar, growbackRate being >= 0
C2_SugarBound ==
    growbackRate >= 0 =>
       /\ \A j \in 1 .. Len(grid) : 0 <= grid[j].sugar /\ grid[j].sugar <= grid[j].maxSugar
       /\ \A j \in 1 .. Len(gridRef) :
             0 <= gridRef[j].sugar /\ gridRef[j].sugar <= gridRef[j].maxSugar

\* a tick harvested a cell with sugar and growback was cut at a ceiling
C2_Witness ==
    /\ stepped /\ growbackRate >= 1
    /\ \E j \in 1 .. Len(grid) :
          last.gridPrev[j].sugar > 0 /\ last.gridHarvested[j].sugar = 0
    /\ \E j \in 1 .. Len(grid) :
          last.gridHarvested[j].sugar + growbackRate > grid[j].maxSugar
          /\ grid[j].maxSugar > 0

\* C3: after a tick every cell of the grid the tick was given (the array
\* gridRef still holds) has the sugar it had before the tick
C3_InputGridUnchanged == stepped => gridRef = last.gridPrev

\* C4: a doStep call made while gridRef.current.length # width*height
\* leaves grid, agents and tick unchanged
C4_ShapeMismatchRejected ==
    [][(/\ ~refNull
        /\ Len(gridRef) # width * height
        /\ last'.op \in {"doStep", "doStepThrows", "doStepNull"})
       => UNCHANGED <<grid, agents, tick>>]_vars

\* C5: every doStep call starts from the world the previous call produced:
\* the refs it reads hold the latest grid and agents
C5_TicksSequential ==
    [][last'.op = "doStep" => (gridRef = grid /\ agentsRef = agents)]_vars

\* sugar of post-move agent i after harvest minus metabolism
postMetabolism(i) == last.harvested[i].sugar - last.moved[i].metabolism

\* the post-move agents that the death rule keeps
keptIndices == { i \in 1 .. Len(last.moved) : postMetabolism(i) >= 0 }

\* C6: the agents returned as alive are exactly the post-move agents whose
\* sugar after harvest minus metabolism is >= 0, in their original order
C6_DeathRule ==
    stepped =>
      /\ Len(last.alive) = Cardinality(keptIndices)
      /\ \A i \in keptIndices :
           LET r == Cardinality({k \in keptIndices : k <= i})
           IN  last.alive[r] = [last.moved[i] EXCEPT !.sugar = postMetabolism(i)]

\* a tick in which an agent at exactly 0 survived and another agent died
C6_Witness ==
    /\ stepped
    /\ \E i \in keptIndices : postMetabolism(i) = 0
    /\ \E i \in 1 .. Len(last.moved) : postMetabolism(i) < 0

\* C7: right after the harvest phase (before growback) every cell on which
\* an agent stands has sugar 0
C7_HarvestedCellsEmpty ==
    stepped => \A i \in 1 .. Len(last.harvested) :
                  last.gridHarvested[idx(last.harvested[i].x, last.harvested[i].y,
                                         last.w) + 1].sugar = 0

\* a tick in which an agent stood on a cell that held sugar
C7_Witness ==
    /\ stepped
    /\ \E i \in 1 .. Len(last.moved) :
          last.gridPrev[idx(last.moved[i].x, last.moved[i].y, last.w) + 1].sugar > 0

\* the agents that intend cell t in the latest tick
claimants(t) == { i \in 1 .. Len(last.intents) : last.intents[i].to = t }

\* no agent stood on cell t at the start of the latest tick
freeAtStart(t) ==
    \A i \in 1 .. Len(last.agentsPrev) :
       ~(last.agentsPrev[i].x = t % last.w /\ last.agentsPrev[i].y = t \div last.w)

\* C8: when two or more agents intend the same cell, free at the start of the
\* tick, exactly one of them stands on it after applyMoves and every other
\* claimant is at its pre-tick position
C8_ConflictOutcome ==
    stepped =>
      \A t \in 0 .. (last.w * last.h - 1) :
        (Cardinality(claimants(t)) >= 2 /\ freeAtStart(t)) =>
           \E i \in claimants(t) :
              /\ last.moved[i].x = t % last.w /\ last.moved[i].y = t \div last.w
              /\ \A k \in claimants(t) \ {i} :
                    /\ last.moved[k].x = last.agentsPrev[k].x
                    /\ last.moved[k].y = last.agentsPrev[k].y
                    /\ ~(last.moved[k].x = t % last.w /\ last.moved[k].y = t \div last.w)

\* a tick with two claimants of one free cell
C8_Witness ==
    /\ stepped
    /\ \E t \in 0 .. (last.w * last.h - 1) :
          Cardinality(claimants(t)) >= 2 /\ freeAtStart(t)

\* the cells agent i of the latest tick may choose: its own cell (k = 0,
\* d = 0) and the cells at distance d = 1..vision in direction k = 1..4
\* (+x, -x, +y, -y) on the torus that no agent occupied before the tick
candidates(i) ==
    LET a == last.agentsPrev[i]
        scanned == { [k |-> k, d |-> d,
                      x |-> (a.x + dirs[k][1] * d) % last.w,
                      y |-> (a.y + dirs[k][2] * d) % last.h] :
                        k \in 1 .. 4, d \in 1 .. a.vision }
    IN  {[k |-> 0, d |-> 0, x |-> a.x, y |-> a.y]}
        \cup { c \in scanned :
                 \A n \in 1 .. Len(last.agentsPrev) :
                    ~(last.agentsPrev[n].x = c.x /\ last.agentsPrev[n].y = c.y) }

\* pre-tick sugar of a candidate's cell
candSugar(c) == last.gridPrev[c.y * last.w + c.x + 1].sugar

\* c is preferred to c2: more sugar, then nearer, then earlier direction
preferred(c, c2) ==
    \/ candSugar(c) > candSugar(c2)
    \/ candSugar(c) = candSugar(c2) /\ c.d < c2.d
    \/ candSugar(c) = candSugar(c2) /\ c.d = c2.d /\ c.k < c2.k

\* C9: chooseIntents returns for each agent the candidate cell with the
\* highest pre-tick sugar, ties going to the smallest scan distance and then
\* to the first direction in the order +x, -x, +y, -y
C9_PlannerChoice ==
    stepped =>
      \A i \in 1 .. Len(last.agentsPrev) :
        \E c \in candidates(i) :
           /\ \A c2 \in candidates(i) \ {c} : preferred(c, c2)
           /\ last.intents[i].to = c.y * last.w + c.x
           /\ last.intents[i].from =
                 last.agentsPrev[i].y * last.w + last.agentsPrev[i].x

\* a tick in which an agent whose vision wraps the torus left its cell for
\* one of two distinct cells with the same sugar at the same distance
C9_Witness ==
    /\ stepped
    /\ \E i \in 1 .. Len(last.agentsPrev) :
          /\ last.agentsPrev[i].vision >= last.w
          /\ last.intents[i].to # last.intents[i].from
          /\ \E c, c2 \in candidates(i) :
                /\ c.k < c2.k /\ c.d = c2.d /\ candSugar(c) = candSugar(c2)
                /\ <<c.x, c.y>> # <<c2.x, c2.y>>
                /\ last.intents[i].to = c.y * last.w + c.x

\* the lone agent is, after the latest tick, on the cell it was on before
loneStayed ==
    /\ stepped
    /\ last.moved[1].x = last.agentsPrev[1].x
    /\ last.moved[1].y = last.agentsPrev[1].y

\* C10 as stated: from every starting position the lone agent reaches a cell
\* on which it stays put in every later tick
C10_LoneAgentSettles == <>[]loneStayed

\* some cell of the lone agent's row or column held, before the latest tick,
\* strictly more sugar than the agent's own cell
loneSawRicher ==
    LET a == last.agentsPrev[1]
        own == last.gridPrev[a.y * last.w + a.x + 1].sugar
    IN  \E x \in 0 .. (last.w - 1), y \in 0 .. (last.h - 1) :
           /\ (x = a.x \/ y = a.y)
           /\ last.gridPrev[y * last.w + x + 1].sugar > own

\* C10 amended: in every tick of the scenario the lone agent stays on its cell
\* exactly when no cell of its row or column has strictly more sugar
C10_LoneStaysIffNoRicher == stepped => (loneStayed <=> ~loneSawRicher)

\* a tick in which the lone agent stayed on its cell
C10_Witness == loneStayed /\ ~loneSawRicher

\* C11: an agent with metabolism 0 never loses sugar in a tick: its sugar
\* after the tick is >= its sugar before the tick, and when its sugar was
\* >= 0 the death rule keeps it
C11_ZeroMetabolismKeepsSugar ==
    stepped =>
      \A i \in 1 .. Len(last.agentsPrev) :
        last.agentsPrev[i].metabolism = 0 =>
           /\ last.metabolized[i].sugar >= last.agentsPrev[i].sugar
           /\ last.agentsPrev[i].sugar >= 0 =>
                 \E r \in 1 .. Len(last.alive) :
                    /\ last.alive[r] = last.metabolized[i]
                    /\ last.alive[r].sugar >= last.agentsPrev[i].sugar

\* a tick with two agents of metabolism 0: one held 0 sugar, harvested
\* nothing and was kept at 0, the other gained sugar
C11_Witness ==
    /\ stepped
    /\ \E i, k \in 1 .. Len(last.agentsPrev) :
          /\ last.agentsPrev[i].metabolism = 0
          /\ last.agentsPrev[i].sugar = 0
          /\ last.metabolized[i].sugar = 0
          /\ \E r \in 1 .. Len(last.alive) : last.alive[r] = last.metabolized[i]
          /\ last.agentsPrev[k].metabolism = 0
          /\ last.metabolized[k].sugar > last.agentsPrev[k].sugar

\* C12: with respawn enabled and fewer than agentCount survivors the agent
\* set after the tick has exactly agentCount agents, the survivors in order
\* followed by agentCount - survivors newborns; with respawn disabled, or
\* with at least agentCount survivors, it is exactly the survivors
C12_RespawnRefill ==
    stepped =>
      IF respawn /\ Len(last.alive) < agentCount
      THEN /\ Len(agents) = agentCount
           /\ SubSeq(agents, 1, Len(last.alive)) = last.alive
           /\ SubSeq(agents, Len(last.alive) + 1, Len(agents))
                 \in makeAgents(agentCount - Len(last.alive), width, height,
                                visionSpec, metSpec, initSugarSpec)
      ELSE agents = last.alive

\* a tick with respawn enabled after which one survivor is followed by one
\* newborn
C12_Witness ==
    /\ stepped /\ respawn
    /\ Len(last.alive) = 1 /\ agentCount = 2
    /\ Len(agents) = 2 /\ agents[1] = last.alive[1]

\* wealthHistogram has returned
binned == last.op = "wealthHistogram"

\* the floored sugar of agent i of the latest wealthHistogram call
flooredSugar(i) == last.sugars[i] \div SugarDen

RECURSIVE countSum(_, _)
\* the sum of the counts of the first b bins
countSum(bins, b) == IF b = 0 THEN 0 ELSE bins[b].count + countSum(bins, b - 1)

\* C13: the counts of the bins wealthHistogram returns sum to the number of
\* agents, and each bin's count is the number of agents whose floored sugar
\* lies between the bin's labelled lower and upper bound
C13_HistogramTotals ==
    binned =>
      /\ \A b \in 1 .. Len(last.bins) :
            last.bins[b].count =
               Cardinality({ i \in 1 .. Len(last.sugars) :
                               /\ last.bins[b].lo <= flooredSugar(i)
                               /\ flooredSugar(i) <= last.bins[b].hi })
      /\ countSum(last.bins, Len(last.bins)) = Len(last.sugars)

\* a histogram of several bins over agents with negative, fractional and
\* positive sugar, a bin being empty and another holding two agents
C13_Witness ==
    /\ binned /\ Len(last.bins) >= 3
    /\ \E i, k \in 1 .. Len(last.sugars) :
          /\ last.sugars[i] < 0
          /\ last.sugars[k] > 0 /\ last.sugars[k] % SugarDen # 0
    /\ \E b, c \in 1 .. Len(last.bins) :
          last.bins[b].count = 0 /\ last.bins[c].count = 2

\* smallest and largest floored sugar of the latest wealthHistogram call
histMin == CHOOSE m \in {flooredSugar(i) : i \in 1 .. Len(last.sugars)} :
              \A i \in 1 .. Len(last.sugars) : m <= flooredSugar(i)

histMax == CHOOSE m \in {flooredSugar(i) : i \in 1 .. Len(last.sugars)} :
              \A i \in 1 .. Len(last.sugars) : m >= flooredSugar(i)

\* the agent set of the latest call is not empty and its floored sugars
\* are not all equal
histSpread ==
    /\ binned /\ Len(last.sugars) > 0
    /\ \E i, k \in 1 .. Len(last.sugars) : flooredSugar(i) < flooredSugar(k)

\* C14: for an agent set whose smallest floored sugar is below its largest,
\* the first bin's lower bound is the smallest floored sugar, each next
\* bin's lower bound is the previous bin's upper bound + 1, and the last
\* bin's lower bound is <= the largest floored sugar <= its upper bound
C14_HistogramContiguity ==
    histSpread =>
      /\ Len(last.bins) >= 1
      /\ last.bins[1].lo = histMin
      /\ \A b \in 2 .. Len(last.bins) : last.bins[b].lo = last.bins[b - 1].hi + 1
      /\ last.bins[Len(last.bins)].lo <= histMax
      /\ histMax <= last.bins[Len(last.bins)].hi

\* a histogram of several bins of size >= 2 whose last bin reaches beyond
\* the largest floored sugar
C14_Witness ==
    /\ histSpread /\ Len(last.bins) >= 3
    /\ last.bins[1].hi > last.bins[1].lo
    /\ last.bins[Len(last.bins)].hi > histMax

\* C15: wealthHistogram returns the one bin 0-0 with count 0 for the empty
\* agent set, and the one bin v-v with count n for n >= 1 agents whose
\* floored sugars all equal v, whatever auto and binCount are
C15_HistogramDegenerate ==
    binned =>
      /\ Len(last.sugars) = 0 => last.bins = <<[lo |-> 0, hi |-> 0, count |-> 0]>>
      /\ \A v \in (-1) .. (MaxHistSugar + 1) :
            (/\ Len(last.sugars) >= 1
             /\ \A i \in 1 .. Len(last.sugars) : flooredSugar(i) = v)
            => last.bins = <<[lo |-> v, hi |-> v, count |-> Len(last.sugars)]>>

\* a call on several agents with different sugars whose floors are equal
C15_Witness ==
    /\ binned /\ Len(last.sugars) >= 2 /\ Len(last.bins) = 1
    /\ \E i, k \in 1 .. Len(last.sugars) :
          last.sugars[i] # last.sugars[k] /\ flooredSugar(i) = flooredSugar(k)
    /\ \A i, k \in 1 .. Len(last.sugars) : flooredSugar(i) = flooredSugar(k)
    /\ last.bins[1].count = Len(last.sugars)

\* a call on the empty agent set
C15_WitnessEmpty == binned /\ Len(last.sugars) = 0 /\ Len(last.bins) = 1

\* sampleInt has returned
sampled == last.op = "sampleInt"

\* C16: for a uniform or normal spec with integer bounds, inverted ones
\* (min > max) included, sampleInt returns an integer between min(min,max)
\* and max(min,max); for a uniform spec with min <= max the results it can
\* return are exactly min..max
C16_SamplerRange ==
    /\ (sampled /\ last.spec.kind \in {"uniform", "normal"}) =>
          /\ last.result \in Int
          /\ Min2(last.spec.min, last.spec.max) <= last.result
          /\ last.result <= Max2(last.spec.min, last.spec.max)
    /\ (last.op \in {"samplerArgs", "sampleInt"} /\ last.spec.kind = "uniform"
        /\ last.spec.min <= last.spec.max) =>
          sampleInt(last.spec) = last.spec.min .. last.spec.max

\* a normal spec with inverted bounds whose draw was cut at the lower one,
\* max
C16_Witness ==
    /\ sampled /\ last.spec.kind = "normal"
    /\ last.spec.min > last.spec.max /\ last.spec.sd > 0
    /\ last.spec.mean > last.spec.max
    /\ last.result = last.spec.max

\* a uniform spec with min < max that returned max
C16_WitnessUniform ==
    /\ sampled /\ last.spec.kind = "uniform"
    /\ last.spec.min + 2 <= last.spec.max
    /\ last.result = last.spec.max

\* the items of positive weight of the spec of the latest sampleInt call
positiveItems ==
    { j \in 1 .. Len(last.spec.items) : last.spec.items[j].weight > 0 }

\* C17: for a discrete spec sampleInt returns the value of an item with
\* weight > 0, never a value that only items of weight <= 0 carry; it
\* returns 0 when no item has positive weight, and the value of the item
\* when exactly one has
C17_DiscreteSampling ==
    (sampled /\ last.spec.kind = "discrete") =>
       /\ positiveItems = {} => last.result = 0
       /\ positiveItems # {} =>
             \E j \in positiveItems : last.result = last.spec.items[j].value
       /\ \A j \in positiveItems :
             positiveItems = {j} => last.result = last.spec.items[j].value

\* a spec whose first item has weight 0 and another value than the second,
\* which has positive weight and was returned
C17_Witness ==
    /\ sampled /\ last.spec.kind = "discrete"
    /\ Len(last.spec.items) = 2
    /\ last.spec.items[1].weight = 0 /\ last.spec.items[2].weight > 0
    /\ last.spec.items[1].value # last.spec.items[2].value
    /\ last.result = last.spec.items[2].value

\* a spec with items none of which has positive weight
C17_WitnessNoItem ==
    /\ sampled /\ last.spec.kind = "discrete"
    /\ Len(last.spec.items) >= 1 /\ positiveItems = {}
    /\ last.result = 0

\* C18: every agent of every reachable world has vision >= 1 and
\* metabolism >= 0, whatever vision and metabolism specs the sampler takes
C18_AttributeBounds ==
    \A i \in 1 .. Len(agents) : agents[i].vision >= 1 /\ agents[i].metabolism >= 0

\* C19: in every reachable state every agent satisfies 0 <= x < width and
\* 0 <= y < height
C19_PositionsOnGrid ==
    \A i \in 1 .. Len(agents) :
       /\ 0 <= agents[i].x /\ agents[i].x < width
       /\ 0 <= agents[i].y /\ agents[i].y < height

\* C20: buildLandscape(width, height, ..) has width*height cells and a tick
\* returns a grid as long as the one it was given, so while width and height
\* are unchanged the grid, after initialization and after every tick, has
\* width*height cells
C20_GridShape ==
    /\ Len(buildLandscape(width, height, maxSugarPerCell)) = width * height
    /\ stepped => Len(grid) = Len(last.gridPrev)
    /\ Len(grid) = width * height

\* a tick has run on a grid that is not square
C20_Witness ==
    /\ stepped /\ width # height /\ tick >= 2
    /\ Len(grid) = 6

\* C21: every cell buildLandscape creates has maxSugar equal to its sugar,
\* which lies in 0..maxSugarPerCell; the first grid is that landscape; and
\* no tick changes the maxSugar of a cell
C21_FixedCeiling ==
    /\ \A j \in 1 .. (width * height) :
          LET c == buildLandscape(width, height, maxSugarPerCell)[j]
          IN  c.maxSugar = c.sugar /\ 0 <= c.sugar /\ c.sugar <= maxSugarPerCell
    /\ last.op = "init" => grid = buildLandscape(width, height, maxSugarPerCell)
    /\ stepped =>
          /\ Len(grid) = Len(last.gridPrev)
          /\ \A j \in 1 .. Len(grid) : grid[j].maxSugar = last.gridPrev[j].maxSugar
          /\ \A j \in 1 .. Len(grid) :
                grid[j].maxSugar = buildLandscape(width, height, maxSugarPerCell)[j].maxSugar

\* a tick after which a cell that was created with sugar holds less than
\* its ceiling
C21_Witness ==
    /\ stepped
    /\ \E j \in 1 .. Len(grid) :
          /\ grid[j].maxSugar = maxSugarPerCell
          /\ grid[j].sugar < grid[j].maxSugar
          /\ last.gridPrev[j].sugar = last.gridPrev[j].maxSugar

\* agent i (1-based) is the recorded winner of the cell it intended
wonTarget(i) == last.winners[last.intents[i].to + 1] = i - 1

\* C22: for each agent i the agent applyMoves returns stands on the intended
\* cell if winners[destination] = i and on its pre-tick cell otherwise, with
\* the id, sugar, vision and metabolism of the input agent; and the input
\* agents (the array agentsRef holds) are what they were before the tick,
\* after applyMoves and after the harvest and metabolize phases
C22_MoveApplierFrame ==
    stepped =>
      /\ Len(last.moved) = Len(last.agentsPrev)
      /\ \A i \in 1 .. Len(last.agentsPrev) :
            LET a == last.agentsPrev[i]
                b == last.moved[i]
                t == last.intents[i].to
            IN  /\ IF wonTarget(i)
                   THEN b.x = t % last.w /\ b.y = t \div last.w
                   ELSE b.x = a.x /\ b.y = a.y
                /\ b.id = a.id /\ b.sugar = a.sugar
                /\ b.vision = a.vision /\ b.metabolism = a.metabolism
      /\ agentsRef = last.agentsPrev

\* a tick in which an agent holding sugar won another cell and an agent
\* lost the cell it intended, and the harvest changed an agent's sugar
C22_Witness ==
    /\ stepped
    /\ \E i, k \in 1 .. Len(last.agentsPrev) :
          /\ wonTarget(i) /\ last.intents[i].to # last.intents[i].from
          /\ last.agentsPrev[i].sugar > 0
          /\ ~wonTarget(k) /\ last.intents[k].to # last.intents[k].from
    /\ \E i \in 1 .. Len(last.agentsPrev) :
          last.harvested[i].sugar # last.agentsPrev[i].sugar

\* some agent stands on cell j (0-based) after the move phase of the latest
\* tick
stoodOn(j) ==
    \E i \in 1 .. Len(last.moved) :
       idx(last.moved[i].x, last.moved[i].y, last.w) = j

\* C23: after a tick every cell's sugar is min(maxSugar, s + growbackRate),
\* s being 0 if some agent stood on the cell after the move phase (an agent
\* that died in the tick included) and the cell's pre-tick sugar otherwise
C23_NextGridRule ==
    stepped =>
      /\ Len(grid) = Len(last.gridPrev)
      /\ \A j \in 0 .. (Len(grid) - 1) :
            LET s == IF stoodOn(j) THEN 0 ELSE last.gridPrev[j + 1].sugar
            IN  grid[j + 1].sugar = Min2(last.gridPrev[j + 1].maxSugar, s + growbackRate)

\* a tick with growback in which an agent that died stood on a cell that
\* held sugar; the cell ends with the growback alone
C23_Witness ==
    /\ stepped /\ growbackRate >= 1
    /\ \E i \in 1 .. Len(last.moved) :
          LET j == idx(last.moved[i].x, last.moved[i].y, last.w)
          IN  /\ last.metabolized[i].sugar < 0
              /\ last.gridPrev[j + 1].sugar > growbackRate
              /\ grid[j + 1].sugar = growbackRate

\* a tick with growback in which a free cell below its ceiling grew
C23_WitnessGrowth ==
    /\ stepped /\ growbackRate >= 1
    /\ \E j \in 0 .. (Len(grid) - 1) :
          /\ ~stoodOn(j)
          /\ last.gridPrev[j + 1].sugar < last.gridPrev[j + 1].maxSugar
          /\ grid[j + 1].sugar = last.gridPrev[j + 1].sugar + growbackRate

\* an agent before agent i in agent order stands, after the move phase of
\* the latest tick, on the cell agent i stands on
notFirstOnCell(i) == \E k \in 1 .. (i - 1) : sameCell(last.moved, k, i)

\* C24: each agent's sugar after the harvest is its pre-tick sugar plus the
\* pre-tick sugar of the cell it stands on after the move phase; of several
\* agents on one cell the first in agent order gets the cell's whole sugar
\* and the others get 0
C24_HarvestAmount ==
    stepped =>
      \A i \in 1 .. Len(last.moved) :
         LET cell == last.gridPrev[idx(last.moved[i].x, last.moved[i].y, last.w) + 1]
         IN  last.harvested[i].sugar =
                last.agentsPrev[i].sugar + (IF notFirstOnCell(i) THEN 0 ELSE cell.sugar)

\* a tick in which the second of two agents on one cell that held sugar got
\* nothing, and an agent that already held sugar got more
C24_Witness ==
    /\ stepped
    /\ \E i \in 1 .. Len(last.moved) :
          /\ notFirstOnCell(i)
          /\ last.gridPrev[idx(last.moved[i].x, last.moved[i].y, last.w) + 1].sugar > 0
          /\ last.harvested[i].sugar = last.agentsPrev[i].sugar
    /\ \E k \in 1 .. Len(last.moved) :
          /\ last.agentsPrev[k].sugar > 0
          /\ last.harvested[k].sugar > last.agentsPrev[k].sugar

\* the least e with 2^e >= m: ceil(log2(m)) for m >= 1
log2Up(m) == CHOOSE e \in 0 .. 10 : 2 ^ e >= m /\ \A f \in 0 .. (e - 1) : 2 ^ f < m

\* ceil(a/b) for b > 0: the least q with q*b >= a
ceilOf(a, b) == CHOOSE q \in (-1) .. (a + 1) : q * b >= a /\ (q - 1) * b < a

\* k as the binning rule states it, for the latest wealthHistogram call
ruleK ==
    IF last.auto THEN clamp(log2Up(Max2(2, Len(last.sugars))) + 1, 5, 30)
    ELSE clamp(last.binCount, 1, 50)

\* the bin width the rule states
ruleWidth == ceilOf(histMax - histMin + 1, ruleK)

\* C25: for an agent set with min < max, with k = clamp(ceil(log2(max(2,n))
\* + 1), 5, 30) when auto is set and clamp(binCount, 1, 50) otherwise, every
\* bin is ceil((max-min+1)/k) wide, ceil((max-min+1)/width) bins are
\* returned, at least 1 and at most k, and an agent with floored sugar v is
\* counted in bin floor((v-min)/width)
C25_BinningRule ==
    histSpread =>
      /\ Len(last.bins) = ceilOf(histMax - histMin + 1, ruleWidth)
      /\ Len(last.bins) >= 1 /\ Len(last.bins) <= ruleK
      /\ \A b \in 1 .. Len(last.bins) :
            /\ last.bins[b].hi - last.bins[b].lo + 1 = ruleWidth
            /\ last.bins[b].count =
                  Cardinality({ i \in 1 .. Len(last.sugars) :
                                  (flooredSugar(i) - histMin) \div ruleWidth = b - 1 })

\* a call with auto set on 17 agents: 6 bins where 16 agents get 5
C25_Witness ==
    /\ histSpread /\ last.auto /\ Len(last.sugars) = 17
    /\ ruleK = 6 /\ Len(last.bins) = 6

\* a call with a manual bin count above 50 and more than one floored sugar
\* per bin asked
C25_WitnessManual ==
    /\ histSpread /\ ~last.auto /\ last.binCount > 50
    /\ Len(last.bins) = histMax - histMin + 1 /\ Len(last.bins) >= 5

\* C26: the newborns of a respawn have the ids 0..births-1, whatever ids
\* the survivors hold
C26_RespawnIds ==
    (stepped /\ respawn /\ Len(last.alive) < agentCount) =>
       /\ Len(agents) = agentCount
       /\ \A b \in 1 .. (agentCount - Len(last.alive)) :
             agents[Len(last.alive) + b].id = b - 1

\* a respawn after which a survivor and a newborn both have id 0
C26_Witness ==
    /\ stepped /\ respawn
    /\ Len(last.alive) = 1 /\ last.alive[1].id = 0
    /\ Len(agents) = 2 /\ agents[1].id = 0 /\ agents[2].id = 0

\* C27: after a change of width or agentCount through the controls the next
\* doStep that takes effect is applied to the reinitialized world: the refs
\* it reads hold a new grid of width*height cells and agentCount new agents,
\* at tick 0, not the world built for the old parameters
C27_ShapeChangeRebuilds ==
    [][(last.op \in {"setWidth", "setAgentCount"} /\ last'.op = "doStep") =>
         /\ tick = 0
         /\ gridRef = buildLandscape(width, height, maxSugarPerCell)
         /\ agentsRef \in makeAgents(agentCount, width, height,
                                     visionSpec, metSpec, initSugarSpec)]_vars

\* agent i stands, after applyMoves, on another cell than before the tick
changedCell(i) ==
    last.moved[i].x # last.agentsPrev[i].x \/ last.moved[i].y # last.agentsPrev[i].y

\* C28: after applyMoves an agent whose position changed in the tick stands
\* on a cell that no agent occupied at the start of the tick
C28_NoMoveIntoOccupied ==
    stepped =>
      \A i \in 1 .. Len(last.moved) :
         changedCell(i) =>
            \A k \in 1 .. Len(last.agentsPrev) :
               ~(last.agentsPrev[k].x = last.moved[i].x
                 /\ last.agentsPrev[k].y = last.moved[i].y)

\* a tick in which agents i and k, on different cells, both changed cell,
\* the cell k left being in i's row or column and holding at least the
\* sugar of i's own cell
C28_Witness ==
    /\ stepped
    /\ \E i, k \in 1 .. Len(last.moved) :
          /\ i # k /\ changedCell(i) /\ changedCell(k)
          /\ ~sameCell(last.agentsPrev, i, k)
          /\ (last.agentsPrev[k].x = last.agentsPrev[i].x
              \/ last.agentsPrev[k].y = last.agentsPrev[i].y)
          /\ last.gridPrev[idx(last.agentsPrev[k].x, last.agentsPrev[k].y, last.w) + 1].sugar
               >= last.gridPrev[idx(last.agentsPrev[i].x, last.agentsPrev[i].y, last.w) + 1].sugar

\* no two agents of the array share a cell
uniqueCells(ags) == \A i, k \in 1 .. Len(ags) : i # k => ~sameCell(ags, i, k)

\* C29: if no two agents share a cell at the start of a tick, no two agents
\* share a cell after applyMoves in that tick, whatever the coin flips of
\* resolveConflicts
C29_OccupancyPreserved ==
    (stepped /\ uniqueCells(last.agentsPrev)) => uniqueCells(last.moved)

\* a tick that started with the agents on different cells in which two
\* agents intended the same cell and the later one won it
C29_Witness ==
    /\ stepped /\ uniqueCells(last.agentsPrev)
    /\ \E i, k \in 1 .. Len(last.agentsPrev) :
          /\ i < k /\ last.intents[i].to = last.intents[k].to
          /\ changedCell(k) /\ ~changedCell(i)

\* ceil(maxSugar/growbackRate) for cell j1 of the grid
ticksToCeiling(j1) == -((-grid[j1].maxSugar) \div growbackRate)

\* C30: with growbackRate >= 1, a cell on which no agent stood after the
\* move phase of the latest ceil(maxSugar/growbackRate) ticks, or of more
\* ticks, has sugar = maxSugar
C30_GrowbackReachesCeiling ==
    growbackRate >= 1 =>
      \A j1 \in 1 .. Len(grid) :
         last.freeTicks[j1] >= ticksToCeiling(j1) => grid[j1].sugar = grid[j1].maxSugar

\* the agent has died after its harvest: a cell that needs 3 ticks has been
\* free for 3 ticks or more, and a free cell reached its ceiling in the
\* latest tick
C30_Witness ==
    /\ stepped /\ growbackRate = 1 /\ Len(agents) = 0
    /\ \E j1 \in 1 .. Len(grid) :
          /\ ticksToCeiling(j1) = 3
          /\ last.freeTicks[j1] >= 3
          /\ grid[j1].sugar = 3
    /\ \E j1 \in 1 .. Len(grid) :
          /\ last.freeTicks[j1] >= 1
          /\ last.gridPrev[j1].sugar < grid[j1].maxSugar
          /\ grid[j1].sugar = grid[j1].maxSugar

==========================================================================
